---- MODULE Spec2Model ----
(***************************************************************************)
(* Session reconciliation of the Itqan CMS front-end.                      *)
(*                                                                         *)
(* Auth0IntegratedProvider keeps three pieces of React state (user,        *)
(* isLoading, requiresProfileCompletion), two localStorage keys            *)
(* (itqan_user, itqan_profile_completed) and three effects: the mount      *)
(* effect, the sync effect and the route-protection effect.  The identity  *)
(* provider SDK (useAuth0) is the environment: its three outputs           *)
(* (isLoading, isAuthenticated, user) change by environment actions.       *)
(*                                                                         *)
(* One action is one synchronous segment of a handler or effect: React     *)
(* batches the state updates of a segment into one render, so the values   *)
(* of the variables are the values of a render.  A segment ends at an      *)
(* await; what follows the await is another action.                        *)
(*                                                                         *)
(* Environment assumption of Spec: localStorage calls do not throw.        *)
(*                                                                         *)
(* Five specifications share the variables:                                *)
(*   Spec            the provider, its effects and the SDK;                *)
(*   SpecForms       the login, signup and profile-completion forms with   *)
(*                   the steps that mount and unmount them;                *)
(*   SpecDashboard   DashboardContent, SearchBar, FiltersSidebar and       *)
(*                   Pagination for a signed-in visitor;                   *)
(*   SpecPagination  Pagination under every pagination envelope;           *)
(*   SpecFaults      Spec with a localStorage.setItem that may throw, the  *)
(*                   effects being run and the pending lookups ending.     *)
(* A specification leaves the variables of the components it does not     *)
(* cover at their initial values.                                          *)
(***************************************************************************)
EXTENDS Integers, Sequences, FiniteSets

\* ---------------------------------------------------------------- bounds
\* sync runs that may be suspended on the /userinfo lookup at one time
MaxSyncRuns == 1
\* completeProfile calls that may be in flight at one time
MaxCalls == 1
\* runs of the dashboard's fetchAssets that may be in flight at one time
MaxFetches == 2
\* the highest page number a pagination envelope takes
MaxPage == 9
\* the highest page count, page size and item count of an envelope handed
\* to Pagination
MaxPages == 9
MaxPerPage == 2
MaxTotal == 4

\* ------------------------------------------------------------ value sets
Locales == {"en"}
\* the provider's `sub` claim
Subs == {"s1", "s2"}
\* the provider's `email` claim: absent ("") or present
Emails == {"", "e"}
\* the id the backend answers with on profile completion
BackendId == "b1"

Null == [kind |-> "null"]
Undefined == "undefined"
NoRedirect == <<>>

\* the provider user (ID token claims) as the SDK hands it out
Claims == [sub : Subs, email : Emails, given_name : {"G"}, family_name : {"F"}]

\* fields of the User interface that hold strings
StringFields == {"id", "email", "firstName", "lastName", "provider", "auth0Id"}

\* ----------------------------------------------------------------- paths
\* A path is the sequence of its segments: /en/auth/login is
\* <<"en","auth","login">> and /en/ is <<"en","">>.
HomePath(l) == <<l>>
HomeSlashPath(l) == <<l, "">>
LoginPath(l) == <<l, "auth", "login">>
SignupPath(l) == <<l, "auth", "signup">>
CallbackPath(l) == <<l, "auth", "callback">>
CompleteProfilePath(l) == <<l, "auth", "complete-profile">>
DashboardPath(l) == <<l, "dashboard">>

Paths(l) == {HomePath(l), HomeSlashPath(l), LoginPath(l), SignupPath(l),
             CallbackPath(l), CompleteProfilePath(l), DashboardPath(l)}

\* pathname.includes('/auth/'): a segment "auth" that another segment follows
IsAuthRoute(p) == \E i \in 1..Len(p) : p[i] = "auth" /\ i < Len(p)
\* pathname.includes('/auth/callback')
IsCallbackRoute(p) ==
    \E i \in 1..Len(p) : p[i] = "auth" /\ i < Len(p) /\ p[i + 1] = "callback"
\* pathname.includes('/auth/complete-profile')
IsCompleteProfileRoute(p) ==
    \E i \in 1..Len(p) : p[i] = "auth" /\ i < Len(p) /\ p[i + 1] = "complete-profile"
\* pathname === `/${locale}` || pathname === `/${locale}/`
IsHomePage(p, l) == p = HomePath(l) \/ p = HomeSlashPath(l)

\* ------------------------------------------------------------------ JSON
\* JSON.stringify drops the keys whose value is undefined; JSON.parse gives
\* an object on which a dropped key reads as undefined again.
JSONStringify(u) ==
    [k \in {f \in StringFields : u[f] # Undefined} \cup {"profileCompleted"} |-> u[k]]

JSONParse(s) ==
    [k \in StringFields \cup {"profileCompleted"} |->
        IF k \in DOMAIN s THEN s[k] ELSE Undefined]

\* ------------------------------------------------------------- variables
VARIABLES
    locale,                    \* the provider's locale prop
    pathname,                  \* usePathname()
    auth0IsLoading,            \* useAuth0().isLoading
    auth0IsAuthenticated,      \* useAuth0().isAuthenticated
    auth0User,                 \* useAuth0().user (Null when undefined)
    user,                      \* useState<User | null>
    isLoading,                 \* useState(true)
    requiresProfileCompletion, \* useState(false)
    itqan_user,                \* localStorage item (Null when absent)
    itqan_profile_completed,   \* localStorage item ("null" when absent)
    mounted,                   \* the mount effect has run
    syncDue,                   \* the sync effect's dependencies changed
    syncRuns,                  \* sync runs suspended on email resolution
    cpCalls,                   \* completeProfile calls in flight
    form,                      \* state of the mounted SocialProfileForm
    redirect,                  \* router.replace target of the last step
    lastOp,                    \* the step taken last
    searchQuery,               \* DashboardContent: useState('')
    localValue,                \* SearchBar: useState(value)
    filters,                   \* DashboardContent: useState<FiltersState>
    pagination,                \* DashboardContent: useState<PaginationInfo>
    assets,                    \* DashboardContent: useState<AssetViewModel[]>
    loading,                   \* DashboardContent: useState(true)
    fetchesInFlight,           \* runs of fetchAssets waiting on their timer
    authForm,                  \* state of the mounted login or signup form
    authCalls,                 \* loginUser and signupUser calls in flight
    paginationView             \* what the mounted Pagination has rendered

provider == <<auth0IsLoading, auth0IsAuthenticated, auth0User>>
local == <<user, isLoading, requiresProfileCompletion>>
storage == <<itqan_user, itqan_profile_completed>>
dashboard == <<searchQuery, localValue, filters, pagination, assets, loading,
               fetchesInFlight, paginationView>>
authForms == <<authForm, authCalls>>
vars == <<locale, pathname, provider, local, storage, mounted, syncDue,
          syncRuns, cpCalls, form, redirect, lastOp, dashboard, authForms>>

\* ------------------------------------------------------------- operators
\* useState initial values of SocialProfileForm
FreshForm == [submitError |-> "", isLoading |-> FALSE, errors |-> {}]

\* the fields validateSocialProfileForm may report
FormFields == {"jobTitle", "phoneNumber"}

\* the provider renders its children unless a loading flag is set; the
\* profile-completion page renders SocialProfileForm
FormShown(l, al, p) == ~l /\ ~al /\ p = CompleteProfilePath(locale)

\* the mounted SocialProfileForm instance survives a step iff it is shown
\* before and after it
FormKept(l, al, p) ==
    FormShown(isLoading, auth0IsLoading, pathname) /\ FormShown(l, al, p)

\* the login and signup pages render LoginForm, and SignupForm or
\* Auth0SignupForm
AuthFormShown(l, al, p) ==
    ~l /\ ~al /\ p \in {LoginPath(locale), SignupPath(locale)}

\* the mounted login or signup form instance survives a step iff it is
\* shown before and after it on the same page
AuthFormKept ==
    /\ AuthFormShown(isLoading, auth0IsLoading, pathname)
    /\ AuthFormShown(isLoading', auth0IsLoading', pathname')
    /\ pathname' = pathname

\* calls whose calling form instance has been unmounted
Orphaned(calls) == [i \in DOMAIN calls |-> [calls[i] EXCEPT !.live = FALSE]]

\* pending operations that have seen another pending operation write the
\* persisted user (history, read by no action)
Overlapped(ops) == [i \in DOMAIN ops |-> [ops[i] EXCEPT !.overlapped = TRUE]]

RemoveAt(s, i) == SubSeq(s, 1, i - 1) \o SubSeq(s, i + 1, Len(s))

\* a step of the provider or of another component: the login or signup
\* form keeps its state while its instance stays mounted
AuthFormFollows ==
    /\ authForm' = IF AuthFormKept THEN authForm ELSE FreshForm
    /\ authCalls' = IF AuthFormKept THEN authCalls ELSE Orphaned(authCalls)

NoArg == Null
Op(name, arg) == [op |-> name, arg |-> arg]

\* persistUserState: the localStorage half
PersistItem(userData) ==
    IF userData # Null THEN JSONStringify(userData) ELSE Null

\* persistUserState that forgets to remove the completion flag
PersistFlag_KeepsFlag(userData, flag) == flag

\* persistUserState that removes the completion flag on every call
PersistFlag_DropsFlag(userData, flag) == "null"

PersistFlag(userData, flag) ==
    IF userData # Null THEN flag ELSE "null"

\* outcomes of the /userinfo fallback of a sync run
EmailOutcomes == {"email", "noEmailField", "notOk", "tokenThrew", "fetchThrew"}

\* resolvedEmail after the fallback (Undefined unless ui.email was read)
ResolvedEmail(o) == IF o = "email" THEN "e" ELSE Undefined

\* syncUser without the `|| ''` fallback on the resolved email
BuildUser_NoEmailFallback(claims, resolvedEmail, flag) ==
    [id |-> claims.sub,
     email |-> resolvedEmail,
     firstName |-> claims.given_name,
     lastName |-> claims.family_name,
     provider |-> "auth0",
     profileCompleted |-> (flag = "1"),
     auth0Id |-> claims.sub]

\* syncUser that does not merge the persisted completion flag
BuildUser_IgnoresFlag(claims, resolvedEmail, flag) ==
    [id |-> claims.sub,
     email |-> IF resolvedEmail = Undefined \/ resolvedEmail = "" THEN "" ELSE resolvedEmail,
     firstName |-> claims.given_name,
     lastName |-> claims.family_name,
     provider |-> "auth0",
     profileCompleted |-> FALSE,
     auth0Id |-> claims.sub]

\* the userData object syncUser builds, persisted flag merged in
BuildUser(claims, resolvedEmail, flag) ==
    [id |-> claims.sub,
     email |-> IF resolvedEmail = Undefined \/ resolvedEmail = "" THEN "" ELSE resolvedEmail,
     firstName |-> claims.given_name,
     lastName |-> claims.family_name,
     provider |-> "auth0",
     profileCompleted |-> (flag = "1"),
     auth0Id |-> claims.sub]

\* completeProfile that does not mark the profile completed
BackendUser_Incomplete(sub) ==
    [id |-> BackendId,
     email |-> "e",
     firstName |-> "G",
     lastName |-> "F",
     provider |-> "auth0",
     profileCompleted |-> FALSE,
     auth0Id |-> sub]

\* the userData object completeProfile builds from the backend's answer
BackendUser(sub) ==
    [id |-> BackendId,
     email |-> "e",
     firstName |-> "G",
     lastName |-> "F",
     provider |-> "auth0",
     profileCompleted |-> TRUE,
     auth0Id |-> sub]

\* the auth0User object SignupForm hands to updateUser
SignupUser ==
    [id |-> BackendId,
     email |-> "e",
     firstName |-> "G",
     lastName |-> "F",
     provider |-> "email",
     profileCompleted |-> TRUE,
     auth0Id |-> BackendId]

\* a guard that sends an anonymous visitor on an auth page to the login page
GuardTarget_LoginFromAuthRoute(l, al, auth, u, rpc, p, loc) ==
    IF l \/ al THEN NoRedirect
    ELSE IF IsCallbackRoute(p) THEN NoRedirect
    ELSE IF auth /\ u # Null /\ rpc /\ ~IsCompleteProfileRoute(p)
        THEN CompleteProfilePath(loc)
    ELSE IF auth /\ u # Null /\ ~rpc /\ IsAuthRoute(p) /\ ~IsCallbackRoute(p)
        THEN DashboardPath(loc)
    ELSE IF ~auth /\ ~al /\ ~IsHomePage(p, loc)
        THEN LoginPath(loc)
    ELSE NoRedirect

\* a guard that sends an anonymous visitor on the home page to the login page
GuardTarget_LoginFromHome(l, al, auth, u, rpc, p, loc) ==
    IF l \/ al THEN NoRedirect
    ELSE IF IsCallbackRoute(p) THEN NoRedirect
    ELSE IF auth /\ u # Null /\ rpc /\ ~IsCompleteProfileRoute(p)
        THEN CompleteProfilePath(loc)
    ELSE IF auth /\ u # Null /\ ~rpc /\ IsAuthRoute(p) /\ ~IsCallbackRoute(p)
        THEN DashboardPath(loc)
    ELSE IF ~auth /\ ~al /\ ~IsAuthRoute(p)
        THEN LoginPath(loc)
    ELSE NoRedirect

\* a guard that does not wait for the loading flags
GuardTarget_IgnoresLoading(l, al, auth, u, rpc, p, loc) ==
    IF IsCallbackRoute(p) THEN NoRedirect
    ELSE IF auth /\ u # Null /\ rpc /\ ~IsCompleteProfileRoute(p)
        THEN CompleteProfilePath(loc)
    ELSE IF auth /\ u # Null /\ ~rpc /\ IsAuthRoute(p) /\ ~IsCallbackRoute(p)
        THEN DashboardPath(loc)
    ELSE IF ~auth /\ ~al /\ ~IsAuthRoute(p) /\ ~IsHomePage(p, loc)
        THEN LoginPath(loc)
    ELSE NoRedirect

\* a guard without the callback exemption
GuardTarget_NoCallbackExemption(l, al, auth, u, rpc, p, loc) ==
    IF l \/ al THEN NoRedirect
    ELSE IF auth /\ u # Null /\ rpc /\ ~IsCompleteProfileRoute(p)
        THEN CompleteProfilePath(loc)
    ELSE IF auth /\ u # Null /\ ~rpc /\ IsAuthRoute(p)
        THEN DashboardPath(loc)
    ELSE IF ~auth /\ ~al /\ ~IsAuthRoute(p) /\ ~IsHomePage(p, loc)
        THEN LoginPath(loc)
    ELSE NoRedirect

\* a guard that leaves a completed user on the auth pages
GuardTarget_NoDashboardRedirect(l, al, auth, u, rpc, p, loc) ==
    IF l \/ al THEN NoRedirect
    ELSE IF IsCallbackRoute(p) THEN NoRedirect
    ELSE IF auth /\ u # Null /\ rpc /\ ~IsCompleteProfileRoute(p)
        THEN CompleteProfilePath(loc)
    ELSE IF ~auth /\ ~al /\ ~IsAuthRoute(p) /\ ~IsHomePage(p, loc)
        THEN LoginPath(loc)
    ELSE NoRedirect

\* the route-protection effect: the router.replace target, if any
GuardTarget(l, al, auth, u, rpc, p, loc) ==
    IF l \/ al THEN NoRedirect
    ELSE IF IsCallbackRoute(p) THEN NoRedirect
    ELSE IF auth /\ u # Null /\ rpc /\ ~IsCompleteProfileRoute(p)
        THEN CompleteProfilePath(loc)
    ELSE IF auth /\ u # Null /\ ~rpc /\ IsAuthRoute(p) /\ ~IsCallbackRoute(p)
        THEN DashboardPath(loc)
    ELSE IF ~auth /\ ~al /\ ~IsAuthRoute(p) /\ ~IsHomePage(p, loc)
        THEN LoginPath(loc)
    ELSE NoRedirect

\* the provider renders its children and no effect is waiting to run
ChildrenRendered == mounted /\ ~syncDue /\ ~isLoading /\ ~auth0IsLoading

\* ------------------------------------------------- dashboard: operators
\* search texts typed into the search bar
Queries == {"", "q"}

\* the keys of FiltersState
Facets == {"categories", "formats", "languages", "licenses"}

\* the option values of mockFilters kept in the model
availableFilters ==
    [categories |-> {"quran", "hadith"}, formats |-> {"json"},
     languages |-> {"ar"}, licenses |-> {}]

\* mockAssets, with the fields the facets are about
mockAssets ==
    << [id |-> "asset-1", category |-> "quran", format |-> "json",
        language |-> "ar", license |-> "cc0"],
       [id |-> "asset-2", category |-> "hadith", format |-> "xml",
        language |-> "ar", license |-> "cc-by"] >>

\* useState initial value of filters, and the argument of clearAllFilters
EmptyFilters ==
    [categories |-> <<>>, formats |-> <<>>, languages |-> <<>>, licenses |-> <<>>]

\* useState initial value of pagination
InitialPagination ==
    [page |-> 1, per_page |-> 20, total |-> 156, pages |-> 8,
     has_next |-> TRUE, has_prev |-> FALSE]

Range(s) == {s[i] : i \in DOMAIN s}

\* the numbers a..b in order, as a for loop pushes them
Run(a, b) == [i \in 1..(b - a + 1) |-> a + i - 1]

\* Pagination: the range of items being shown
startItem_ZeroBased(page, per_page) == (page - 1) * per_page

startItem(page, per_page) == (page - 1) * per_page + 1

endItem(page, per_page, total) ==
    IF page * per_page < total THEN page * per_page ELSE total

\* the 'ellipsis' entry of getVisiblePages (page numbers are positive)
ellipsis == 0

maxVisiblePages == 7

\* getVisiblePages whose window near the end holds six pages
getVisiblePages_WideTail(page, pages) ==
    IF pages <= maxVisiblePages
    THEN Run(1, pages)
    ELSE IF page <= 4
    THEN <<1>> \o Run(2, 5) \o <<ellipsis, pages>>
    ELSE IF page >= pages - 3
    THEN <<1, ellipsis>> \o Run(pages - 5, pages)
    ELSE <<1, ellipsis>> \o Run(page - 1, page + 1) \o <<ellipsis, pages>>

getVisiblePages(page, pages) ==
    IF pages <= maxVisiblePages
    THEN Run(1, pages)
    ELSE IF page <= 4
    THEN <<1>> \o Run(2, 5) \o <<ellipsis, pages>>
    ELSE IF page >= pages - 3
    THEN <<1, ellipsis>> \o Run(pages - 4, pages)
    ELSE <<1, ellipsis>> \o Run(page - 1, page + 1) \o <<ellipsis, pages>>

\* the disabled props of the Previous and Next buttons
previousDisabled_AtFirstPage(p) == p.page = 1

previousDisabled(p) == ~p.has_prev

nextDisabled(p) == ~p.has_next

\* paginationView while no Pagination is mounted
NotMounted == Null

\* what Pagination computes and renders from its pagination prop
RenderPagination(p) ==
    [rendered |-> p.pages > 1,
     startItem |-> startItem(p.page, p.per_page),
     endItem |-> endItem(p.page, p.per_page, p.total),
     visiblePages |-> getVisiblePages(p.page, p.pages),
     previousDisabled |-> previousDisabled(p),
     nextDisabled |-> nextDisabled(p)]

\* DashboardContent mounts Pagination when it shows results
PaginationMounted(ld, as) == ~ld /\ as # <<>>

\* useState initial values of DashboardContent and SearchBar
DashboardConstructed ==
    /\ searchQuery = ""
    /\ localValue = ""
    /\ filters = EmptyFilters
    /\ assets = <<>>
    /\ loading = TRUE
    /\ paginationView = NotMounted

\* ------------------------------------------------------------------ Init
\* state after construction, first visit with empty storage
Init ==
    /\ locale \in Locales
    /\ pathname \in Paths(locale)
    /\ auth0IsLoading = TRUE
    /\ auth0IsAuthenticated = FALSE
    /\ auth0User = Null
    /\ user = Null
    /\ isLoading = TRUE
    /\ requiresProfileCompletion = FALSE
    /\ itqan_user = Null
    /\ itqan_profile_completed = "null"
    /\ mounted = FALSE
    /\ syncDue = TRUE
    /\ syncRuns = <<>>
    /\ cpCalls = <<>>
    /\ form = FreshForm
    /\ redirect = NoRedirect
    /\ lastOp = Op("init", NoArg)
    /\ DashboardConstructed
    /\ pagination = InitialPagination
    /\ fetchesInFlight = 0
    /\ authForm = FreshForm
    /\ authCalls = <<>>

\* --------------------------------------------------------------- actions
\* the mount effect: initialise from localStorage
MountEffect ==
    /\ ~mounted
    /\ mounted' = TRUE
    /\ IF itqan_user # Null
       THEN LET parsedUser == JSONParse(itqan_user) IN
            /\ user' = parsedUser
            /\ requiresProfileCompletion' =
                  (itqan_profile_completed # "1" /\ ~parsedUser.profileCompleted)
       ELSE UNCHANGED <<user, requiresProfileCompletion>>
    /\ redirect' = NoRedirect
    /\ lastOp' = Op("mount", NoArg)
    /\ UNCHANGED <<dashboard, locale, pathname, provider, isLoading, storage, syncDue,
                   syncRuns, cpCalls, form>>
    /\ AuthFormFollows

\* syncUser without its loading check
SyncReturnsEarly_Never(al) == FALSE

\* syncUser's first line: if (auth0IsLoading) return
SyncReturnsEarly(al) == al

\* a handleSubmit without its finally block
FormAfterFailure_StaysLoading(f) == [f EXCEPT !.submitError = "networkError"]

FormAfterFailure_NoMessage(f) == [f EXCEPT !.isLoading = FALSE]

\* SocialProfileForm.handleSubmit's catch and finally
FormAfterFailure(f) ==
    [f EXCEPT !.submitError = "networkError", !.isLoading = FALSE]

\* the tail of an authenticated sync run, after the email is resolved
SyncAuthenticated(claims, resolvedEmail, outcome, overlapped) ==
    LET userData == BuildUser(claims, resolvedEmail, itqan_profile_completed)
        calls == IF FormKept(FALSE, auth0IsLoading, pathname)
                 THEN cpCalls ELSE Orphaned(cpCalls)
    IN
    /\ user' = userData
    /\ itqan_user' = PersistItem(userData)
    /\ itqan_profile_completed' = PersistFlag(userData, itqan_profile_completed)
    /\ requiresProfileCompletion' = ~userData.profileCompleted
    /\ isLoading' = FALSE
    /\ form' = IF FormKept(FALSE, auth0IsLoading, pathname) THEN form ELSE FreshForm
    /\ cpCalls' = IF outcome = "claim" THEN calls ELSE Overlapped(calls)
    /\ redirect' = NoRedirect
    /\ lastOp' = Op(IF outcome = "claim" THEN "syncAuth" ELSE "syncResumed",
                    [claims |-> claims, outcome |-> outcome,
                     overlapped |-> overlapped])

\* the sync effect, up to its first await or to its end
SyncEffect ==
    /\ mounted
    /\ syncDue
    /\ syncDue' = FALSE
    /\ UNCHANGED <<dashboard, locale, pathname, provider, mounted>>
    /\ IF SyncReturnsEarly(auth0IsLoading)
       THEN /\ redirect' = NoRedirect
            /\ lastOp' = Op("syncSkip", NoArg)
            /\ UNCHANGED <<local, storage, syncRuns, cpCalls, form>>
       ELSE IF auth0IsAuthenticated /\ auth0User # Null
       THEN IF auth0User.email # ""
            THEN /\ SyncAuthenticated(auth0User, auth0User.email, "claim", FALSE)
                 /\ UNCHANGED syncRuns
            ELSE /\ isLoading' = TRUE
                 /\ syncRuns' = Append(syncRuns,
                       [claims |-> auth0User, overlapped |-> FALSE])
                 /\ form' = FreshForm
                 /\ cpCalls' = Orphaned(cpCalls)
                 /\ redirect' = NoRedirect
                 /\ lastOp' = Op("syncAwait", NoArg)
                 /\ UNCHANGED <<user, requiresProfileCompletion, storage>>
       ELSE /\ user' = Null
            /\ itqan_user' = PersistItem(Null)
            /\ itqan_profile_completed' = PersistFlag(Null, itqan_profile_completed)
            /\ requiresProfileCompletion' = FALSE
            /\ isLoading' = FALSE
            /\ form' = IF FormKept(FALSE, auth0IsLoading, pathname)
                       THEN form ELSE FreshForm
            /\ cpCalls' = IF FormKept(FALSE, auth0IsLoading, pathname)
                          THEN cpCalls ELSE Orphaned(cpCalls)
            /\ redirect' = NoRedirect
            /\ lastOp' = Op("syncUnauth",
                  [hadItem |-> itqan_user # Null,
                   hadFlag |-> itqan_profile_completed = "1"])
            /\ UNCHANGED syncRuns
    /\ AuthFormFollows

\* a suspended sync run resumes when the /userinfo lookup ends
SyncResume ==
    /\ mounted
    /\ \E i \in DOMAIN syncRuns : \E o \in EmailOutcomes :
        /\ SyncAuthenticated(syncRuns[i].claims, ResolvedEmail(o), o,
                             syncRuns[i].overlapped)
        /\ syncRuns' = Overlapped(RemoveAt(syncRuns, i))
    /\ UNCHANGED <<dashboard, locale, pathname, provider, mounted, syncDue>>
    /\ AuthFormFollows

\* the route-protection effect
RouteGuard ==
    LET target == GuardTarget(isLoading, auth0IsLoading, auth0IsAuthenticated,
                              user, requiresProfileCompletion, pathname, locale)
        newPath == IF target # NoRedirect THEN target ELSE pathname
    IN
    /\ mounted
    /\ redirect' = target
    /\ pathname' = newPath
    /\ form' = IF FormKept(isLoading, auth0IsLoading, newPath) THEN form ELSE FreshForm
    /\ cpCalls' = IF FormKept(isLoading, auth0IsLoading, newPath)
                  THEN cpCalls ELSE Orphaned(cpCalls)
    /\ lastOp' = Op("guard", NoArg)
    /\ UNCHANGED <<dashboard, locale, provider, local, storage, mounted, syncDue, syncRuns>>
    /\ AuthFormFollows

\* logout, reached from the header's button (shown to an authenticated
\* user).  auth0Logout sends the browser to the identity provider and back:
\* the page load that follows is Refresh.
Logout ==
    /\ ChildrenRendered
    /\ auth0IsAuthenticated
    /\ user # Null
    /\ user' = Null
    /\ requiresProfileCompletion' = FALSE
    /\ redirect' = NoRedirect
    /\ lastOp' = Op("logout", NoArg)
    /\ UNCHANGED <<dashboard, locale, pathname, provider, isLoading, storage, mounted,
                   syncDue, syncRuns, cpCalls, form>>
    /\ AuthFormFollows

\* updateUser, reached from SignupForm.handleSubmit on a successful signup;
\* the window.location.href assignment that follows is Refresh
UpdateUser ==
    /\ ChildrenRendered
    /\ pathname = SignupPath(locale)
    /\ user' = SignupUser
    /\ requiresProfileCompletion' = ~SignupUser.profileCompleted
    /\ redirect' = NoRedirect
    /\ lastOp' = Op("updateUser", NoArg)
    /\ UNCHANGED <<dashboard, locale, pathname, provider, isLoading, storage, mounted,
                   syncDue, syncRuns, cpCalls, form>>
    /\ AuthFormFollows

\* what a validator of lib/validations may report for a form: any set of
\* its fields, each with a non-empty message
ValidationErrors(fields) == SUBSET fields

\* a submit handler whose validation reports fields: the error map is
\* replaced and the handler returns
FormAfterInvalid_EntersLoading(f, reported) ==
    [f EXCEPT !.submitError = "", !.errors = reported, !.isLoading = TRUE]

FormAfterInvalid(f, reported) ==
    [f EXCEPT !.submitError = "", !.errors = reported]

\* a submit handler whose validation passes, up to its await
FormAfterSubmit_StaysEnabled(f) == [f EXCEPT !.submitError = ""]

FormAfterSubmit(f) == [f EXCEPT !.submitError = "", !.isLoading = TRUE]

\* SocialProfileForm.handleSubmit, up to the await of completeProfile
SubmitProfile ==
    /\ ChildrenRendered
    /\ FormShown(isLoading, auth0IsLoading, pathname)
    /\ ~form.isLoading
    /\ \E reported \in ValidationErrors(FormFields) :
        IF reported # {}
        THEN /\ form' = FormAfterInvalid(form, reported)
             /\ lastOp' = Op("submitInvalid",
                             [form |-> "profile", reported |-> reported])
             /\ UNCHANGED cpCalls
        ELSE /\ Len(cpCalls) < MaxCalls
             /\ form' = FormAfterSubmit(form)
             /\ cpCalls' = Append(cpCalls,
                   [sub |-> IF auth0User # Null THEN auth0User.sub ELSE Undefined,
                    live |-> TRUE, overlapped |-> FALSE])
             /\ lastOp' = Op("submit", [form |-> "profile"])
    /\ redirect' = NoRedirect
    /\ UNCHANGED <<dashboard, locale, pathname, provider, local, storage, mounted,
                   syncDue, syncRuns>>
    /\ AuthFormFollows

\* outcomes of the token retrieval and the POST of completeProfile
CallOutcomes == {"ok", "notOk", "tokenThrew", "fetchThrew", "jsonThrew"}

\* completeProfile after its awaits, and the caller's catch/finally
CompleteProfileFinish ==
    /\ mounted
    /\ \E i \in DOMAIN cpCalls : \E o \in CallOutcomes :
        LET call == cpCalls[i]
            rest == RemoveAt(cpCalls, i)
        IN
        IF o = "ok"
        THEN LET userData == BackendUser(call.sub) IN
             /\ user' = userData
             /\ itqan_user' = PersistItem(userData)
             /\ requiresProfileCompletion' = FALSE
             /\ itqan_profile_completed' = "1"
             /\ redirect' = DashboardPath(locale)
             /\ pathname' = DashboardPath(locale)
             /\ form' = FreshForm
             /\ cpCalls' = Overlapped(Orphaned(rest))
             /\ syncRuns' = Overlapped(syncRuns)
             /\ lastOp' = Op("cpOk", [call |-> call, outcome |-> o])
             /\ UNCHANGED isLoading
        ELSE /\ form' = IF call.live THEN FormAfterFailure(form) ELSE form
             /\ cpCalls' = rest
             /\ redirect' = NoRedirect
             /\ lastOp' = Op("cpFail", [call |-> call, outcome |-> o])
             /\ UNCHANGED <<local, storage, pathname, syncRuns>>
    /\ UNCHANGED <<dashboard, locale, provider, mounted, syncDue>>
    /\ AuthFormFollows

\* client-side navigation (a link, the back button)
Navigate ==
    /\ mounted
    /\ ~syncDue
    /\ \E p \in Paths(locale) \ {pathname} :
        /\ pathname' = p
        /\ form' = FreshForm
        /\ cpCalls' = Orphaned(cpCalls)
    /\ redirect' = NoRedirect
    /\ lastOp' = Op("navigate", NoArg)
    /\ UNCHANGED <<dashboard, locale, provider, local, storage, mounted, syncDue, syncRuns>>
    /\ AuthFormFollows

\* a full page load (refresh, return from the identity provider, or the
\* window.location.href assignment of the signup forms): every in-memory
\* value is constructed anew, localStorage stays
Refresh ==
    /\ mounted
    /\ \E p \in Paths(locale) : pathname' = p
    /\ auth0IsLoading' = TRUE
    /\ auth0IsAuthenticated' = FALSE
    /\ auth0User' = Null
    /\ user' = Null
    /\ isLoading' = TRUE
    /\ requiresProfileCompletion' = FALSE
    /\ mounted' = FALSE
    /\ syncDue' = TRUE
    /\ syncRuns' = <<>>
    /\ cpCalls' = <<>>
    /\ form' = FreshForm
    /\ redirect' = NoRedirect
    /\ lastOp' = Op("refresh", NoArg)
    /\ UNCHANGED <<dashboard, locale, storage>>
    /\ authForm' = FreshForm
    /\ authCalls' = <<>>

\* the SDK finishes loading: authenticated with a user, or anonymous
Auth0Initialised ==
    /\ mounted
    /\ ~syncDue
    /\ auth0IsLoading
    /\ auth0IsLoading' = FALSE
    /\ \E u \in Claims \cup {Null} :
        /\ auth0User' = u
        /\ auth0IsAuthenticated' = (u # Null)
    /\ syncDue' = TRUE
    /\ redirect' = NoRedirect
    /\ lastOp' = Op("auth0", NoArg)
    /\ UNCHANGED <<dashboard, locale, pathname, local, storage, mounted, syncRuns,
                   cpCalls, form>>
    /\ AuthFormFollows

\* the SDK replaces its user in place after a token retrieval: a new user
\* object for the same subject, or none when the session is gone
Auth0UserChange ==
    /\ mounted
    /\ ~syncDue
    /\ ~auth0IsLoading
    /\ auth0IsAuthenticated
    /\ \E u \in Claims \cup {Null} :
        /\ u # Null => u.sub = auth0User.sub
        /\ (u # Null /\ u.email = "") => Len(syncRuns) < MaxSyncRuns
        /\ auth0User' = u
        /\ auth0IsAuthenticated' = (u # Null)
    /\ syncDue' = TRUE
    /\ redirect' = NoRedirect
    /\ lastOp' = Op("auth0", NoArg)
    /\ UNCHANGED <<dashboard, locale, pathname, auth0IsLoading, local, storage, mounted,
                   syncRuns, cpCalls, form>>
    /\ AuthFormFollows

Next ==
    \/ MountEffect
    \/ SyncEffect
    \/ SyncResume
    \/ RouteGuard
    \/ Logout
    \/ UpdateUser
    \/ SubmitProfile
    \/ CompleteProfileFinish
    \/ Navigate
    \/ Refresh
    \/ Auth0Initialised
    \/ Auth0UserChange

Spec == Init /\ [][Next]_vars

\* ------------------------------------------------ login and signup forms
\* the forms a page renders
FormsOn(p) ==
    IF p = LoginPath(locale) THEN {"login"}
    ELSE IF p = SignupPath(locale) THEN {"signup", "auth0Signup"}
    ELSE {}

\* the fields validateLoginForm and validateSignupForm may report
AuthFormFields == {"email", "password"}

\* LoginForm.handleEmailLogin, SignupForm.handleSubmit and
\* Auth0SignupForm.handleSubmit, up to the await of loginUser or signupUser
SubmitAuthForm ==
    /\ ChildrenRendered
    /\ AuthFormShown(isLoading, auth0IsLoading, pathname)
    /\ ~authForm.isLoading
    /\ \E kind \in FormsOn(pathname) : \E reported \in ValidationErrors(AuthFormFields) :
        IF reported # {}
        THEN /\ authForm' = FormAfterInvalid(authForm, reported)
             /\ lastOp' = Op("submitInvalid",
                             [form |-> kind, reported |-> reported])
             /\ UNCHANGED authCalls
        ELSE /\ Len(authCalls) < MaxCalls
             /\ authForm' = FormAfterSubmit(authForm)
             /\ authCalls' = Append(authCalls, [form |-> kind, live |-> TRUE])
             /\ lastOp' = Op("submit", [form |-> kind])
    /\ redirect' = NoRedirect
    /\ UNCHANGED <<dashboard, locale, pathname, provider, local, storage,
                   mounted, syncDue, syncRuns, cpCalls, form>>

\* outcomes of loginUser and signupUser: a success response, a response
\* without success, a thrown error
AuthOutcomes == {"ok", "notOk", "threw"}

\* the handlers after their await.  On success LoginForm calls login of
\* the legacy provider (no effect on this provider), SignupForm calls
\* updateUser, and both signup forms assign window.location.href: the page
\* load that follows is Refresh.
AuthCallFinish ==
    /\ mounted
    /\ \E i \in DOMAIN authCalls : \E o \in AuthOutcomes :
        LET call == authCalls[i] IN
        /\ authCalls' = RemoveAt(authCalls, i)
        /\ IF o = "ok"
           THEN /\ authForm' = IF call.live
                               THEN [authForm EXCEPT !.isLoading = FALSE]
                               ELSE authForm
                /\ IF call.form = "signup"
                   THEN /\ user' = SignupUser
                        /\ requiresProfileCompletion' = ~SignupUser.profileCompleted
                   ELSE UNCHANGED <<user, requiresProfileCompletion>>
                /\ lastOp' = Op("authOk", [call |-> call, outcome |-> o])
           ELSE /\ authForm' = IF call.live
                               THEN FormAfterFailure(authForm)
                               ELSE authForm
                /\ lastOp' = Op("authFail", [call |-> call, outcome |-> o])
                /\ UNCHANGED <<user, requiresProfileCompletion>>
    /\ redirect' = NoRedirect
    /\ UNCHANGED <<dashboard, locale, pathname, provider, isLoading, storage,
                   mounted, syncDue, syncRuns, cpCalls, form>>

\* the forms with what mounts and unmounts them: page loads, the first
\* sync run, navigation and the route guard
NextForms ==
    \/ MountEffect
    \/ SyncEffect
    \/ SyncResume
    \/ RouteGuard
    \/ SubmitProfile
    \/ CompleteProfileFinish
    \/ Navigate
    \/ Refresh
    \/ Auth0Initialised
    \/ SubmitAuthForm
    \/ AuthCallFinish

SpecForms == Init /\ [][NextForms]_vars

\* --------------------------------------------------- dashboard: actions
\* the provider's state, which no step of the dashboard changes
session == <<locale, pathname, provider, local, storage, mounted, syncDue,
             syncRuns, cpCalls, form, redirect, authForms>>

\* a signed-in visitor with a completed profile on the dashboard page
SignedIn ==
    /\ locale \in Locales
    /\ pathname = DashboardPath(locale)
    /\ auth0IsLoading = FALSE
    /\ auth0IsAuthenticated = TRUE
    /\ auth0User \in {c \in Claims : c.email # ""}
    /\ user = BuildUser(auth0User, auth0User.email, "1")
    /\ isLoading = FALSE
    /\ requiresProfileCompletion = FALSE
    /\ itqan_user = PersistItem(user)
    /\ itqan_profile_completed = "1"
    /\ mounted = TRUE
    /\ syncDue = FALSE
    /\ syncRuns = <<>>
    /\ cpCalls = <<>>
    /\ form = FreshForm
    /\ redirect = NoRedirect
    /\ lastOp = Op("init", NoArg)
    /\ authForm = FreshForm
    /\ authCalls = <<>>

\* DashboardContent after its first commit: the fetch effect has started
\* its first run
InitDashboard ==
    /\ SignedIn
    /\ DashboardConstructed
    /\ pagination = InitialPagination
    /\ fetchesInFlight = 1

\* DashboardContent renders its controls for a user
DashboardShown == ChildrenRendered /\ user # Null

\* the fetch effect runs after a commit that changed one of its
\* dependencies: fetchAssets up to its await
FetchEffect(depsChanged) ==
    IF depsChanged
    THEN /\ fetchesInFlight < MaxFetches
         /\ loading' = TRUE
         /\ fetchesInFlight' = fetchesInFlight + 1
         /\ UNCHANGED assets
    ELSE UNCHANGED <<loading, fetchesInFlight, assets>>

\* the render of Pagination that follows the step
DashboardRenders ==
    paginationView' = IF PaginationMounted(loading', assets')
                      THEN RenderPagination(pagination')
                      ELSE NotMounted

\* handleSearch
HandleSearch(query) ==
    /\ searchQuery' = query
    /\ pagination' = [pagination EXCEPT !.page = 1]

\* SearchBar.handleInputChange: onChange is setSearchQuery
HandleInputChange ==
    /\ DashboardShown
    /\ \E newValue \in Queries \ {localValue} :
        /\ localValue' = newValue
        /\ searchQuery' = newValue
        /\ lastOp' = Op("type", [value |-> newValue])
    /\ UNCHANGED <<filters, pagination>>
    /\ FetchEffect(searchQuery' # searchQuery)
    /\ DashboardRenders
    /\ UNCHANGED session

\* SearchBar.handleSubmit and the Enter key of handleKeyDown
SearchSubmit ==
    /\ DashboardShown
    /\ HandleSearch(localValue)
    /\ lastOp' = Op("search", [value |-> localValue])
    /\ UNCHANGED <<localValue, filters>>
    /\ FetchEffect(searchQuery' # searchQuery \/ pagination'.page # pagination.page)
    /\ DashboardRenders
    /\ UNCHANGED session

\* SearchBar.handleClear; the button is rendered for a non-empty text
HandleClear ==
    /\ DashboardShown
    /\ localValue # ""
    /\ localValue' = ""
    /\ HandleSearch("")
    /\ lastOp' = Op("clear", NoArg)
    /\ UNCHANGED filters
    /\ FetchEffect(searchQuery' # searchQuery \/ pagination'.page # pagination.page)
    /\ DashboardRenders
    /\ UNCHANGED session

\* handleFiltersChange; setFilters gets a new object, so the fetch effect
\* runs whatever the values
HandleFiltersChange(newFilters) ==
    /\ filters' = newFilters
    /\ pagination' = [pagination EXCEPT !.page = 1]
    /\ FetchEffect(TRUE)

\* handleFilterChange that replaces the facet's selection by the ticked value
newValues_Replaces(currentValues, value, checked) ==
    IF checked
    THEN <<value>>
    ELSE SelectSeq(currentValues, LAMBDA v : v # value)

\* the newValues array of handleFilterChange
newValues(currentValues, value, checked) ==
    IF checked
    THEN Append(currentValues, value)
    ELSE SelectSeq(currentValues, LAMBDA v : v # value)

\* FiltersSidebar.handleFilterChange, from a checkbox
HandleFilterChange ==
    /\ DashboardShown
    /\ \E filterType \in Facets : \E value \in availableFilters[filterType] :
        LET currentValues == filters[filterType]
            checked == value \notin Range(currentValues)
        IN
        /\ HandleFiltersChange([filters EXCEPT ![filterType] =
                                   newValues(currentValues, value, checked)])
        /\ lastOp' = Op("toggle", [filterType |-> filterType, value |-> value,
                                   checked |-> checked])
    /\ UNCHANGED <<searchQuery, localValue>>
    /\ DashboardRenders
    /\ UNCHANGED session

\* FiltersSidebar.clearAllFilters; the button is rendered while a facet
\* has a selected value
ClearAllFilters ==
    /\ DashboardShown
    /\ \E filterType \in Facets : filters[filterType] # <<>>
    /\ HandleFiltersChange(EmptyFilters)
    /\ lastOp' = Op("clearAll", NoArg)
    /\ UNCHANGED <<searchQuery, localValue>>
    /\ DashboardRenders
    /\ UNCHANGED session

\* the pages the buttons of the rendered Pagination hand to onPageChange
ClickTargets ==
    (Range(paginationView.visiblePages) \ {ellipsis})
        \cup (IF paginationView.previousDisabled THEN {} ELSE {pagination.page - 1})
        \cup (IF paginationView.nextDisabled THEN {} ELSE {pagination.page + 1})

\* handlePageChange, from a button of Pagination
HandlePageChange ==
    /\ DashboardShown
    /\ paginationView # NotMounted
    /\ paginationView.rendered
    /\ \E target \in ClickTargets \cap (1..MaxPage) :
        /\ pagination' = [pagination EXCEPT !.page = target]
        /\ lastOp' = Op("page", [target |-> target])
    /\ UNCHANGED <<searchQuery, localValue, filters>>
    /\ FetchEffect(pagination'.page # pagination.page)
    /\ DashboardRenders
    /\ UNCHANGED session

\* whether a run of fetchAssets applies its result after the timer
ResponseApplied_OnlyLatest(inFlight) == inFlight = 1

ResponseApplied(inFlight) == TRUE

\* fetchAssets after its await; timers of equal delay fire in the order
\* they were set
FetchAssetsResume ==
    /\ mounted
    /\ fetchesInFlight > 0
    /\ fetchesInFlight' = fetchesInFlight - 1
    /\ IF ResponseApplied(fetchesInFlight)
       THEN /\ assets' = mockAssets
            /\ loading' = FALSE
       ELSE UNCHANGED <<assets, loading>>
    /\ lastOp' = Op("fetchDone", [superseded |-> fetchesInFlight > 1])
    /\ UNCHANGED <<searchQuery, localValue, filters, pagination>>
    /\ DashboardRenders
    /\ UNCHANGED session

NextDashboard ==
    \/ HandleInputChange
    \/ SearchSubmit
    \/ HandleClear
    \/ HandleFilterChange
    \/ ClearAllFilters
    \/ HandlePageChange
    \/ FetchAssetsResume

SpecDashboard == InitDashboard /\ [][NextDashboard]_vars

\* ----------------------------------------------------------- pagination
\* the pagination props a parent may hand to Pagination
Envelopes ==
    [page : 1..MaxPage, per_page : 1..MaxPerPage, total : 0..MaxTotal,
     pages : 0..MaxPages, has_next : BOOLEAN, has_prev : BOOLEAN]

\* the dashboard with any envelope in its pagination state, before its
\* first results arrive
InitPagination ==
    /\ SignedIn
    /\ DashboardConstructed
    /\ pagination \in Envelopes
    /\ fetchesInFlight = 1

NextPagination ==
    \/ FetchAssetsResume
    \/ HandlePageChange

SpecPagination == InitPagination /\ [][NextPagination]_vars

\* ------------------------------------------- sync runs that throw
\* a sync run whose finally block is missing
SyncThrown_NoFinally(claims) ==
    /\ user' = Null
    /\ itqan_user' = PersistItem(Null)
    /\ itqan_profile_completed' = PersistFlag(Null, itqan_profile_completed)
    /\ isLoading' = TRUE
    /\ form' = FreshForm
    /\ cpCalls' = Overlapped(Orphaned(cpCalls))
    /\ redirect' = NoRedirect
    /\ lastOp' = Op("syncThrew", [claims |-> claims])
    /\ UNCHANGED requiresProfileCompletion

\* an authenticated sync run whose localStorage.setItem throws (quota):
\* persistUserState has called setUser; the catch block calls
\* persistUserState(null), the finally block clears isLoading, and
\* setRequiresProfileCompletion is not reached
SyncThrown(claims) ==
    /\ user' = Null
    /\ itqan_user' = PersistItem(Null)
    /\ itqan_profile_completed' = PersistFlag(Null, itqan_profile_completed)
    /\ isLoading' = FALSE
    /\ form' = IF FormKept(FALSE, auth0IsLoading, pathname) THEN form ELSE FreshForm
    /\ cpCalls' = Overlapped(IF FormKept(FALSE, auth0IsLoading, pathname)
                             THEN cpCalls ELSE Orphaned(cpCalls))
    /\ redirect' = NoRedirect
    /\ lastOp' = Op("syncThrew", [claims |-> claims])
    /\ UNCHANGED requiresProfileCompletion

\* the sync effect for a user with an email claim, throwing before its end
SyncEffectThrows ==
    /\ mounted
    /\ syncDue
    /\ ~SyncReturnsEarly(auth0IsLoading)
    /\ auth0IsAuthenticated
    /\ auth0User # Null
    /\ auth0User.email # ""
    /\ syncDue' = FALSE
    /\ SyncThrown(auth0User)
    /\ UNCHANGED <<dashboard, locale, pathname, provider, mounted, syncRuns>>
    /\ AuthFormFollows

\* a suspended sync run resumes when the /userinfo lookup ends, and throws
SyncResumeThrows ==
    /\ mounted
    /\ \E i \in DOMAIN syncRuns :
        /\ SyncThrown(syncRuns[i].claims)
        /\ syncRuns' = Overlapped(RemoveAt(syncRuns, i))
    /\ UNCHANGED <<dashboard, locale, pathname, provider, mounted, syncDue>>
    /\ AuthFormFollows

\* the steps that read or write isLoading, and the steps that start, orphan
\* or drop a sync run
NextFaults ==
    \/ MountEffect
    \/ SyncEffect
    \/ SyncEffectThrows
    \/ SyncResume
    \/ SyncResumeThrows
    \/ RouteGuard
    \/ Logout
    \/ UpdateUser
    \/ Navigate
    \/ Refresh
    \/ Auth0Initialised
    \/ Auth0UserChange

\* React runs an effect that is due, and a /userinfo lookup resolves or
\* rejects
SpecFaults ==
    /\ Init
    /\ [][NextFaults]_vars
    /\ WF_vars(SyncEffect \/ SyncEffectThrows)
    /\ WF_vars(SyncResume \/ SyncResumeThrows)

\* ------------------------------------------------------------ properties
\* neither the provider loading flag nor the internal loading flag is set
Settled == mounted /\ ~isLoading /\ ~auth0IsLoading

\* the completion flag: the user's profileCompleted, or the persisted flag
CompletionFlag ==
    user.profileCompleted \/ itqan_profile_completed = "1"

\* the labels of the steps of SyncEffect
SyncOps == {"syncSkip", "syncAwait", "syncAuth", "syncUnauth"}

\* C1: once the mount effect has run, requiresProfileCompletion is true iff
\* a local user exists, the provider reports authenticated and the
\* completion flag (user.profileCompleted or itqan_profile_completed = '1')
\* is false.
C1_RequiresIffDerived ==
    mounted =>
        (requiresProfileCompletion <=>
            (user # Null /\ auth0IsAuthenticated /\ ~CompletionFlag))

\* C2: a logout leaves neither itqan_user nor itqan_profile_completed in
\* localStorage.
C2_LogoutClearsStorage ==
    lastOp.op = "logout" =>
        (itqan_user = Null /\ itqan_profile_completed = "null")

\* C3: a run of the route guard in a settled state with
\* requiresProfileCompletion true, away from the completion page and from a
\* callback location, redirects to /{locale}/auth/complete-profile.
C3_GuardRedirectsToCompleteProfile ==
    [][(/\ lastOp'.op = "guard"
        /\ Settled
        /\ requiresProfileCompletion
        /\ ~IsCompleteProfileRoute(pathname)
        /\ ~IsCallbackRoute(pathname))
       => redirect' = CompleteProfilePath(locale)]_vars

\* C4 as stated: a run of the route guard in a settled state with
\* requiresProfileCompletion false on an auth page other than the callback
\* redirects to /{locale}/dashboard.
C4_GuardRedirectsToDashboard ==
    [][(/\ lastOp'.op = "guard"
        /\ Settled
        /\ ~requiresProfileCompletion
        /\ IsAuthRoute(pathname)
        /\ ~IsCallbackRoute(pathname))
       => redirect' = DashboardPath(locale)]_vars

\* C4 amended: a run of the route guard in a settled state with the
\* provider authenticated, a local user present and
\* requiresProfileCompletion false, on an auth page other than the
\* callback, redirects to /{locale}/dashboard.
C4_GuardRedirectsAuthenticatedToDashboard ==
    [][(/\ lastOp'.op = "guard"
        /\ Settled
        /\ auth0IsAuthenticated
        /\ user # Null
        /\ ~requiresProfileCompletion
        /\ IsAuthRoute(pathname)
        /\ ~IsCallbackRoute(pathname))
       => (redirect' = DashboardPath(locale) /\ pathname' = DashboardPath(locale))]_vars

\* the guard has sent an authenticated user with a completed profile to the
\* dashboard
C4_Witness ==
    /\ lastOp.op = "guard"
    /\ redirect = DashboardPath(locale)
    /\ Settled
    /\ auth0IsAuthenticated
    /\ user # Null
    /\ ~requiresProfileCompletion

\* C5: a run of the route guard on a callback location issues no redirect,
\* whatever the provider-auth flag, the local user and
\* requiresProfileCompletion are.
C5_NoRedirectOnCallback ==
    [][(lastOp'.op = "guard" /\ IsCallbackRoute(pathname))
       => (redirect' = NoRedirect /\ pathname' = pathname)]_vars

\* the guard has run on the callback location in a settled state that needs
\* profile completion, and has left the location alone
C5_Witness ==
    /\ lastOp.op = "guard"
    /\ IsCallbackRoute(pathname)
    /\ redirect = NoRedirect
    /\ Settled
    /\ auth0IsAuthenticated
    /\ user # Null
    /\ requiresProfileCompletion

\* C6: a sync run with the provider not loading and not authenticated ends
\* with the local user null, requiresProfileCompletion false and both
\* persisted keys removed.
C6_SyncUnauthenticatedClears ==
    [][(/\ lastOp'.op \in SyncOps
        /\ syncDue /\ ~syncDue'
        /\ ~auth0IsLoading
        /\ ~(auth0IsAuthenticated /\ auth0User # Null))
       => (/\ user' = Null
           /\ requiresProfileCompletion' = FALSE
           /\ itqan_user' = Null
           /\ itqan_profile_completed' = "null")]_vars

\* an unauthenticated sync run has removed a persisted user and flag
C6_Witness ==
    /\ lastOp.op = "syncUnauth"
    /\ lastOp.arg.hadItem
    /\ lastOp.arg.hadFlag
    /\ user = Null
    /\ itqan_user = Null

\* C7: an authenticated sync run ends with a User built from the provider
\* claims of the run (id and auth0Id = sub, provider 'auth0'), whose
\* profileCompleted is true exactly when itqan_profile_completed is '1',
\* persisted under itqan_user, and with requiresProfileCompletion the
\* negation of profileCompleted.
C7_SyncAuthenticatedBuildsUser ==
    lastOp.op \in {"syncAuth", "syncResumed"} =>
        /\ user # Null
        /\ user.id = lastOp.arg.claims.sub
        /\ user.auth0Id = lastOp.arg.claims.sub
        /\ user.provider = "auth0"
        /\ user.profileCompleted = (itqan_profile_completed = "1")
        /\ itqan_user # Null
        /\ JSONParse(itqan_user) = user
        /\ requiresProfileCompletion = ~user.profileCompleted

\* an authenticated sync run has merged a persisted completion flag
C7_Witness ==
    /\ lastOp.op \in {"syncAuth", "syncResumed"}
    /\ itqan_profile_completed = "1"
    /\ user # Null
    /\ user.profileCompleted
    /\ ~requiresProfileCompletion

\* C8: a sync run triggered while the provider is loading leaves the local
\* user, requiresProfileCompletion, the internal loading flag and both
\* persisted keys unchanged and issues no redirect; a guard run while the
\* provider is loading issues none either.
C8_SyncWhileLoadingIsNoOp ==
    [][/\ (lastOp'.op \in SyncOps /\ syncDue /\ ~syncDue' /\ auth0IsLoading)
            => (/\ UNCHANGED <<user, requiresProfileCompletion, isLoading,
                               itqan_user, itqan_profile_completed>>
                /\ redirect' = NoRedirect
                /\ pathname' = pathname)
       /\ (lastOp'.op = "guard" /\ auth0IsLoading)
            => (redirect' = NoRedirect /\ pathname' = pathname)]_vars

\* a sync run has returned early over a user the mount effect had loaded
C8_Witness ==
    /\ lastOp.op = "syncSkip"
    /\ auth0IsLoading
    /\ user # Null
    /\ itqan_user # Null
    /\ isLoading

\* C9: a completeProfile call that gets a success response ends with a
\* persisted User whose profileCompleted is true, itqan_profile_completed
\* equal to '1', requiresProfileCompletion false and a redirect to
\* /{locale}/dashboard issued.
C9_CompleteProfileSuccess ==
    lastOp.op = "cpOk" =>
        /\ user # Null
        /\ user.profileCompleted
        /\ itqan_user # Null
        /\ JSONParse(itqan_user) = user
        /\ itqan_profile_completed = "1"
        /\ ~requiresProfileCompletion
        /\ redirect = DashboardPath(locale)

\* a call made by the mounted form has succeeded
C9_Witness ==
    /\ lastOp.op = "cpOk"
    /\ lastOp.arg.call.live
    /\ itqan_profile_completed = "1"
    /\ pathname = DashboardPath(locale)

EmailFailures == {"notOk", "tokenThrew", "fetchThrew"}

\* C11: a sync run whose provider user has no email claim and whose
\* fallback lookup fails (token retrieval or fetch throws, response not ok)
\* still completes: the User is built and persisted with email '', the
\* user is not cleared and the internal loading flag is reset.
C11_EmailFailureLeavesEmailEmpty ==
    (lastOp.op = "syncResumed" /\ lastOp.arg.outcome \in EmailFailures) =>
        /\ lastOp.arg.claims.email = ""
        /\ user # Null
        /\ user.id = lastOp.arg.claims.sub
        /\ user.email = ""
        /\ itqan_user # Null
        /\ JSONParse(itqan_user) = user
        /\ ~isLoading

\* a sync run has completed after its token retrieval threw
C11_Witness ==
    /\ lastOp.op = "syncResumed"
    /\ lastOp.arg.outcome = "tokenThrew"
    /\ user # Null
    /\ user.email = ""
    /\ itqan_user # Null

\* C12: every step of the dashboard that changes the search text (typing,
\* submitting, clearing) or the selected facets (a toggle, clear-all)
\* leaves the current page at 1.
C12_SearchOrFacetChangeResetsPage ==
    [][(searchQuery' # searchQuery \/ filters' # filters)
          => pagination'.page = 1]_vars

\* an asset matches the filters when, for every facet with selected
\* values, its value of the facet is one of them
Matches(asset, f) ==
    /\ f.categories # <<>> => asset.category \in Range(f.categories)
    /\ f.formats # <<>> => asset.format \in Range(f.formats)
    /\ f.languages # <<>> => asset.language \in Range(f.languages)
    /\ f.licenses # <<>> => asset.license \in Range(f.licenses)

\* C13: once every fetch has completed, the results on display contain
\* only assets that match the selected facet values.
C13_ResultsMatchFacets ==
    (~loading /\ fetchesInFlight = 0) =>
        \A i \in DOMAIN assets : Matches(assets[i], filters)

\* C17: the Pagination on display shows startItem = (page - 1) * per_page
\* + 1 and endItem = the smaller of page * per_page and total, for the
\* envelope it was handed.
C17_ItemRange ==
    paginationView # NotMounted =>
        /\ paginationView.startItem
               = (pagination.page - 1) * pagination.per_page + 1
        /\ paginationView.endItem <= pagination.page * pagination.per_page
        /\ paginationView.endItem <= pagination.total
        /\ paginationView.endItem
               \in {pagination.page * pagination.per_page, pagination.total}

C17_Witness ==
    /\ paginationView # NotMounted
    /\ pagination.page > 1
    /\ pagination.per_page > 1
    /\ pagination.total < pagination.page * pagination.per_page
    /\ paginationView.endItem = pagination.total
    /\ paginationView.startItem > pagination.per_page

\* C18: in the rendered Pagination the Previous button is disabled iff
\* has_prev is false and the Next button is disabled iff has_next is false.
C18_ButtonsFollowFlags ==
    (paginationView # NotMounted /\ paginationView.rendered) =>
        /\ paginationView.previousDisabled <=> ~pagination.has_prev
        /\ paginationView.nextDisabled <=> ~pagination.has_next

C18_Witness ==
    /\ paginationView # NotMounted
    /\ paginationView.rendered
    /\ pagination.page = 1
    /\ pagination.has_prev
    /\ ~paginationView.previousDisabled
    /\ ~pagination.has_next
    /\ paginationView.nextDisabled

\* C20: no run of fetchAssets is cancelled: a step that changes the search
\* text, the facets or the page starts a run besides the outstanding ones,
\* and the only way a run ends is by applying its result (assets set,
\* loading cleared), also when a newer run is outstanding.
C20_NoFetchIsCancelled ==
    [][/\ (searchQuery' # searchQuery \/ filters' # filters
              \/ pagination'.page # pagination.page)
            => (fetchesInFlight' = fetchesInFlight + 1 /\ loading')
       /\ fetchesInFlight' < fetchesInFlight
            => /\ fetchesInFlight' = fetchesInFlight - 1
               /\ assets' = mockAssets
               /\ ~loading']_vars

\* a superseded run has applied its result while the newer run is still
\* outstanding
C20_Witness ==
    /\ lastOp.op = "fetchDone"
    /\ lastOp.arg.superseded
    /\ fetchesInFlight > 0
    /\ ~loading
    /\ assets = mockAssets

\* C19: the persisted user is written only by steps of the session
\* reconciler, and no two operations (suspended sync runs, completeProfile
\* calls) that were pending at the same time both write it.
C19_OneWriterAtATime ==
    /\ [][itqan_user' # itqan_user
             => lastOp'.op \in {"syncAuth", "syncResumed", "syncUnauth", "cpOk"}]_vars
    /\ [](~(lastOp.op = "syncResumed" /\ lastOp.arg.overlapped))
    /\ [](~(lastOp.op = "cpOk" /\ lastOp.arg.call.overlapped))

\* C14: in every form a submit whose validation reports fields records an
\* error for each reported field, starts no backend or reconciler call,
\* changes no state of the reconciler and leaves the form out of the
\* loading state.
C14_InvalidSubmitOnlyRecordsErrors ==
    [][lastOp'.op = "submitInvalid" =>
          LET shown == IF lastOp'.arg.form = "profile" THEN form' ELSE authForm'
          IN
          /\ lastOp'.arg.reported # {}
          /\ \A field \in lastOp'.arg.reported : field \in shown.errors
          /\ ~shown.isLoading
          /\ cpCalls' = cpCalls
          /\ authCalls' = authCalls
          /\ UNCHANGED <<local, storage, syncRuns>>]_vars

C14_Witness ==
    /\ lastOp.op = "submitInvalid"
    /\ lastOp.arg.form = "signup"
    /\ lastOp.arg.reported = AuthFormFields
    /\ authForm.errors = AuthFormFields
    /\ ~authForm.isLoading
    /\ authCalls = <<>>

\* the calls of a sequence whose calling form instance is still mounted
LiveCalls(calls) == {i \in DOMAIN calls : calls[i].live}

C21_NoGuardRedirectWhileLoading ==
    [][/\ (lastOp'.op = "guard" /\ (isLoading \/ auth0IsLoading))
             => (redirect' = NoRedirect /\ pathname' = pathname)
       /\ (isLoading /\ ~isLoading')
             => lastOp'.op \in {"syncAuth", "syncResumed", "syncUnauth"}
       /\ (~mounted /\ mounted') => isLoading']_vars

\* the guard has run while loading in a state where it would redirect to
\* the completion page once settled
C21_Witness ==
    /\ lastOp.op = "guard"
    /\ isLoading
    /\ ~auth0IsLoading
    /\ auth0IsAuthenticated
    /\ user # Null
    /\ requiresProfileCompletion
    /\ ~IsCompleteProfileRoute(pathname)
    /\ ~IsCallbackRoute(pathname)
    /\ redirect = NoRedirect

\* C22: a run of the route guard redirects to the login page iff neither
\* loading flag is set, the provider reports not authenticated and the
\* location is neither an auth route nor the locale's home page; no other
\* step redirects to the login page.
C22_LoginRedirectIff ==
    [][/\ lastOp'.op = "guard" =>
             (redirect' = LoginPath(locale)
                <=> /\ ~isLoading
                    /\ ~auth0IsLoading
                    /\ ~auth0IsAuthenticated
                    /\ ~IsAuthRoute(pathname)
                    /\ ~IsHomePage(pathname, locale))
       /\ redirect' = LoginPath(locale) =>
             (lastOp'.op = "guard" /\ pathname' = LoginPath(locale))]_vars

\* the guard has sent an anonymous visitor of the dashboard to the login
\* page
C22_Witness ==
    /\ lastOp.op = "guard"
    /\ redirect = LoginPath(locale)
    /\ pathname = LoginPath(locale)
    /\ ~auth0IsAuthenticated
    /\ ~isLoading
    /\ ~auth0IsLoading

\* C23: once completeProfile has succeeded the completion flag "1" is
\* persisted; while it is persisted requiresProfileCompletion is false (after
\* the re-mount from storage and after every sync run of a page refresh) and
\* the guard never redirects to the completion page; the flag is removed only
\* by a sync run that finds the provider settled and not authenticated
C23_CompletionSurvivesRefresh ==
    /\ [](itqan_profile_completed = "1" => ~requiresProfileCompletion)
    /\ [][/\ lastOp'.op = "cpOk" => itqan_profile_completed' = "1"
          /\ (itqan_profile_completed = "1" /\ lastOp'.op = "guard")
                => redirect' # CompleteProfilePath(locale)
          /\ (itqan_profile_completed = "1" /\ itqan_profile_completed' # "1")
                => (lastOp'.op = "syncUnauth" /\ ~auth0IsAuthenticated
                      /\ ~auth0IsLoading)]_vars

C23_Witness ==
    /\ lastOp.op = "syncAuth"
    /\ pathname = CompleteProfilePath(locale)
    /\ itqan_profile_completed = "1"
    /\ auth0IsAuthenticated
    /\ user # Null
    /\ user.profileCompleted
    /\ user.id # BackendId
    /\ ~requiresProfileCompletion

\* C24: for pages >= 2 and 1 <= page <= pages the page list on display has
\* at most 7 entries; its numeric entries are strictly increasing, lie in
\* 1..pages and include 1, pages and the current page; for pages <= 7 it is
\* exactly 1..pages without an ellipsis; each ellipsis sits between two
\* numeric entries that leave out at least one page.
C24_VisiblePages ==
    (/\ paginationView # NotMounted
     /\ pagination.pages >= 2
     /\ pagination.page >= 1
     /\ pagination.page <= pagination.pages) =>
        LET vp == paginationView.visiblePages
            numeric == {i \in DOMAIN vp : vp[i] # ellipsis}
        IN  /\ Len(vp) <= maxVisiblePages
            /\ \A i \in numeric : vp[i] \in 1..pagination.pages
            /\ \A i, j \in numeric : i < j => vp[i] < vp[j]
            /\ {1, pagination.pages, pagination.page}
                  \subseteq {vp[i] : i \in numeric}
            /\ pagination.pages <= maxVisiblePages => vp = Run(1, pagination.pages)
            /\ \A i \in DOMAIN vp \ numeric :
                  /\ i - 1 \in numeric
                  /\ i + 1 \in numeric
                  /\ vp[i + 1] - vp[i - 1] >= 2

C24_Witness ==
    /\ paginationView # NotMounted
    /\ pagination.page > 4
    /\ pagination.page < pagination.pages - 3
    /\ Len(paginationView.visiblePages) = maxVisiblePages
    /\ paginationView.visiblePages[2] = ellipsis
    /\ paginationView.visiblePages[6] = ellipsis
    /\ paginationView.visiblePages[4] = pagination.page

\* C25: ticking or unticking a facet option changes the membership of that
\* value in that facet and nothing else: the other values of the facet and
\* the other facets are as before; clearAllFilters leaves all four facets
\* empty.
C25_ToggleOnlyThatValue ==
    [][/\ lastOp'.op = "toggle" =>
             LET filterType == lastOp'.arg.filterType
                 value == lastOp'.arg.value
                 before == Range(filters[filterType])
                 after == Range(filters'[filterType])
             IN  /\ value \in after <=> value \notin before
                 /\ after \ {value} = before \ {value}
                 /\ Len(filters'[filterType]) = Cardinality(after)
                 /\ \A other \in Facets \ {filterType} :
                       filters'[other] = filters[other]
       /\ lastOp'.op = "clearAll" =>
             (/\ DOMAIN filters' = Facets
              /\ Cardinality(Facets) = 4
              /\ \A f \in Facets : filters'[f] = <<>>)]_vars

C25_Witness ==
    /\ lastOp.op = "toggle"
    /\ lastOp.arg.filterType = "categories"
    /\ lastOp.arg.value = "quran"
    /\ ~lastOp.arg.checked
    /\ filters.categories = <<"hadith">>
    /\ filters.formats = <<"json">>

\* C26: no redirect loop: when the guard redirects in a settled state, the
\* location it lands on is one where the guard, with the provider's
\* authentication state, the user and requiresProfileCompletion as they
\* are, issues no redirect; a guard run that follows a redirecting guard
\* run issues none.
C26_NoRedirectLoop ==
    /\ []((lastOp.op = "guard" /\ redirect # NoRedirect) =>
             /\ pathname = redirect
             /\ GuardTarget(isLoading, auth0IsLoading, auth0IsAuthenticated,
                            user, requiresProfileCompletion, pathname, locale)
                   = NoRedirect)
    /\ [][(lastOp.op = "guard" /\ redirect # NoRedirect /\ lastOp'.op = "guard")
             => (redirect' = NoRedirect /\ pathname' = pathname)]_vars

C26_Witness ==
    /\ lastOp.op = "guard"
    /\ Settled
    /\ auth0IsAuthenticated
    /\ user # Null
    /\ requiresProfileCompletion
    /\ redirect = CompleteProfilePath(locale)
    /\ pathname = CompleteProfilePath(locale)

\* C27: after any sequence of page changes, searches and filter changes the
\* pagination state of the dashboard is consistent: 1 <= page <= pages,
\* has_prev iff page > 1, has_next iff page < pages.
C27_PaginationConsistent ==
    /\ pagination.page >= 1
    /\ pagination.page <= pagination.pages
    /\ pagination.has_prev <=> pagination.page > 1
    /\ pagination.has_next <=> pagination.page < pagination.pages

\* C28: when sync runs have overlapped and all of them have finished, the
\* state reflects the provider's latest state: with the provider settled
\* and not authenticated, the state a sync run leaves behind has no user
\* in memory and no itqan_user in storage, whichever run finished last.
C28_LatestProviderStateWins ==
    (/\ lastOp.op \in {"syncAuth", "syncResumed", "syncUnauth"}
     /\ syncRuns = <<>>
     /\ ~syncDue
     /\ ~auth0IsLoading
     /\ ~auth0IsAuthenticated) =>
        /\ user = Null
        /\ itqan_user = Null

\* C29: in every settled state the user in memory is null iff no itqan_user
\* is stored, and when both exist they carry the same profileCompleted.
C29_MemoryMatchesStorage ==
    Settled =>
        /\ user = Null <=> itqan_user = Null
        /\ (user # Null /\ itqan_user # Null) =>
              JSONParse(itqan_user).profileCompleted = user.profileCompleted

\* C30: once the provider has finished loading, and with every pending
\* lookup ending, isLoading becomes false on every path of the sync run
\* (authenticated, not authenticated, failed email resolution, thrown
\* error), unless the page is loaded anew first; it is false whenever no
\* sync run is due or suspended, and every end of a sync run leaves it
\* false.
C30_IsLoadingClears ==
    /\ (mounted /\ ~auth0IsLoading /\ isLoading) ~> (~isLoading \/ ~mounted)
    /\ []((mounted /\ ~auth0IsLoading /\ ~syncDue /\ syncRuns = <<>>)
             => ~isLoading)
    /\ [][lastOp'.op \in {"syncAuth", "syncResumed", "syncUnauth", "syncThrew"}
             => ~isLoading']_vars

C30_Witness ==
    /\ lastOp.op = "syncThrew"
    /\ mounted
    /\ ~auth0IsLoading
    /\ auth0IsAuthenticated
    /\ ~isLoading
    /\ user = Null


====
